---- MODULE Spec2Model ----
(***************************************************************************)
(* Model of AgentOrchestrator (onboarding-agentic-rag/src/core/            *)
(* orchestrator.py): one orchestrate_query call on the shared              *)
(* orchestrator, the agent tasks it creates, the generation-model calls it *)
(* issues and the OrchestrationResult it returns (Spec, LiveSpec); several *)
(* overlapping calls and the shared metrics (MetricsSpec); and of          *)
(* GraphRAGPipeline.process_query (aviation-graph-rag/src/core/            *)
(* graph_rag.py) (GraphSpec, GraphLiveSpec).                               *)
(*                                                                         *)
(* Numbers that are floats in the program (confidence, priority, quality   *)
(* score) are integers in hundredths: 0.5 is 50, 7.5 is 750.               *)
(* Text returned by the generation model is a sequence of one-character    *)
(* strings, so that strip() and float() are computed, not assumed.         *)
(* The program runs on one asyncio event loop: the code between two awaits *)
(* is one atomic step, so every action below runs from one suspension      *)
(* point to the next.                                                      *)
(***************************************************************************)
EXTENDS Integers, Sequences, FiniteSets, TLC

\* ------------------------------------------------------------------ bounds
MaxAgents == 3
MaxPriorTasks == 1
\* orchestrate_query calls made on the shared orchestrator (MetricsSpec)
NumCalls == 3
\* records the graph adapter returns at most (GraphSpec)
MaxRecords == 2
\* passages the vector adapter returns at most (GraphSpec)
MaxPassages == 3

\* ------------------------------------------------------- inputs (small sets)
Agents == {"A", "B", "C"}
Priorities == {50, 90}
AgentConfidences == {0, 40, 90}
Durations == {1, 2}

\* Texts the quality-scoring generation call may return.
QualityTexts ==
    { <<"0", ".", "8">>,
      <<" ", "1", "\n">>,
      <<"7", ".", "5">>,
      <<"-", "1">>,
      <<"g", "o", "o", "d">>,
      <<>> }

SynthesisTexts == {"synthesized answer"}

\* ------------------------------------------------------------- documents
\* Documents are referred to by handle (object identity); DocTable gives the
\* fields of the langchain Document behind a handle.
Rep(c, n) == [i \in 1 .. n |-> c]

DocTable(d) ==
    CASE d = 1 -> [page_content |-> Rep("x", 100) \o <<"a">>, source |-> "handbook"]
      [] d = 2 -> [page_content |-> Rep("x", 100) \o <<"b">>, source |-> "handbook"]
      [] d = 3 -> [page_content |-> <<"f", "a", "q">>, source |-> "absent"]
      [] d = 4 -> [page_content |-> <<"f", "a", "q">>, source |-> "wiki"]
      [] OTHER -> [page_content |-> <<"f", "a", "q">>, source |-> "absent"]

\* What each agent answers and cites (the agents are black boxes; their
\* confidence and their failure are the nondeterministic part).
AgentContent(a) == <<"answer of", a>>

AgentSources(a) ==
    CASE a = "A" -> <<1, 3>>
      [] a = "B" -> <<2, 4, 4>>
      [] OTHER -> <<5>>

\* ------------------------------------------------------------- constants
DegradedMessage == "I'm unable to provide a comprehensive answer at this time."
ErrorMessage(e) == <<"I encountered an error while processing your request: ", e>>
DefaultScore == 50
FailedScore == 50
EmptyScore == 0
ErrorConfidence == 0
SourcePrefixLen == 100

VARIABLES
    pc,                         \* position of the orchestrate_query call
    agent_assignments,          \* what _route_to_agents returned (a 0/1-element sequence)
    tasks,                      \* the (task, priority) list of _execute_agents
    gather_exc,                 \* first exception delivered to asyncio.gather
    agent_responses,            \* list returned by _execute_agents
    final_response,             \* value returned by _synthesize_responses
    result,                     \* the OrchestrationResult returned (a 0/1-element sequence)
    synthesis_calls,            \* generation calls issued for synthesis
    quality_calls,              \* generation calls issued for quality scoring
    task_counter,               \* asyncio's process-wide task name counter
    total_orchestrations,
    successful_orchestrations,
    average_processing_time,    \* a rational [num, den]
    calls,                      \* MetricsSpec: the orchestrate_query calls in progress
    g_pc,                       \* position of the process_query call
    g_intent,                   \* local intent of process_query
    g_cypher_query,             \* the query _traverse_graph sent (a 0/1-element sequence)
    g_graph_records,            \* what graph_service.execute_query returned
    g_graph_context,            \* local graph_context
    g_vector_results,           \* what vector_service.search returned
    g_vector_context,           \* local vector_context
    g_fused_context,            \* local fused_context (a 0/1-element sequence)
    g_generation_calls,         \* response generation calls issued
    g_log,                      \* the events logged through logger
    g_result                    \* the GraphRAGResponse returned (a 0/1-element sequence)

orchestratorVars ==
    << pc, agent_assignments, tasks, gather_exc, agent_responses, final_response, result,
       synthesis_calls, quality_calls, task_counter >>

metricsVars ==
    << total_orchestrations, successful_orchestrations, average_processing_time >>

graphVars ==
    << g_pc, g_intent, g_cypher_query, g_graph_records, g_graph_context,
       g_vector_results, g_vector_context, g_fused_context, g_generation_calls,
       g_log, g_result >>

vars == << orchestratorVars, metricsVars, calls, graphVars >>

NoException == "none"

\* ------------------------------------------------ str.strip() and float()
IsSpace(c) == c \in {" ", "\n", "\t"}

Digits == {"0", "1", "2", "3", "4", "5", "6", "7", "8", "9"}

DigitValue(c) ==
    CASE c = "0" -> 0 [] c = "1" -> 1 [] c = "2" -> 2 [] c = "3" -> 3
      [] c = "4" -> 4 [] c = "5" -> 5 [] c = "6" -> 6 [] c = "7" -> 7
      [] c = "8" -> 8 [] OTHER -> 9

RECURSIVE LStrip(_)
LStrip(s) == IF s # <<>> /\ IsSpace(Head(s)) THEN LStrip(Tail(s)) ELSE s

RECURSIVE RStrip(_)
RStrip(s) ==
    IF s # <<>> /\ IsSpace(s[Len(s)]) THEN RStrip(SubSeq(s, 1, Len(s) - 1)) ELSE s

Strip(s) == RStrip(LStrip(s))

AllDigits(s) == \A i \in 1 .. Len(s) : s[i] \in Digits

RECURSIVE DecimalValue(_)
DecimalValue(s) ==
    IF s = <<>> THEN 0
    ELSE 10 * DecimalValue(SubSeq(s, 1, Len(s) - 1)) + DigitValue(s[Len(s)])

DotPositions(s) == {i \in 1 .. Len(s) : s[i] = "."}

\* The fraction in hundredths: its first two digits (the texts of
\* QualityTexts carry at most two).
FractionHundredths(f) ==
    IF Len(f) = 0 THEN 0
    ELSE IF Len(f) = 1 THEN 10 * DigitValue(f[1])
    ELSE 10 * DigitValue(f[1]) + DigitValue(f[2])

\* float() of an unsigned decimal literal "ddd", "ddd.", ".ddd" or "ddd.ddd".
UnsignedFloat(s) ==
    LET dots == DotPositions(s) IN
    IF Cardinality(dots) > 1 THEN [ok |-> FALSE, value |-> 0]
    ELSE LET d == IF dots = {} THEN Len(s) + 1 ELSE CHOOSE i \in dots : TRUE
             ip == SubSeq(s, 1, d - 1)
             fp == SubSeq(s, d + 1, Len(s))
         IN  IF AllDigits(ip) /\ AllDigits(fp) /\ Len(ip) + Len(fp) > 0
             THEN [ok |-> TRUE, value |-> 100 * DecimalValue(ip) + FractionHundredths(fp)]
             ELSE [ok |-> FALSE, value |-> 0]

\* float(text): ok = FALSE stands for ValueError.
ParseFloat(s) ==
    IF s = <<>> THEN [ok |-> FALSE, value |-> 0]
    ELSE IF Head(s) = "-"
         THEN LET u == UnsignedFloat(Tail(s)) IN [ok |-> u.ok, value |-> 0 - u.value]
    ELSE IF Head(s) = "+" THEN UnsignedFloat(Tail(s))
    ELSE UnsignedFloat(s)

\* --------------------------------------------------- dictionaries (metadata)
EmptyDict == [k \in {} |-> 0]

DictGet(m, k, default) == IF k \in DOMAIN m THEN m[k] ELSE default

DictSet(m, k, v) == [x \in (DOMAIN m) \cup {k} |-> IF x = k THEN v ELSE m[x]]

\* ------------------------------------------------------ agents and tasks
\* Task.get_name() of the n-th task created in the process.
TaskName(n) == <<"Task-", n>>

Unknown == <<"unknown">>

AgentError(a) ==
    CASE a = "A" -> "agent A failed"
      [] a = "B" -> "agent B failed"
      [] OTHER -> "agent C failed"

RouteErrors == {"registry unavailable"}
GenerationErrors == {"generation failed"}

\* The AgentResponse that the agent of task i returns: id is the object
\* identity of the response (the position of its assignment).
AgentResponse(i, t) ==
    [ id |-> i,
      content |-> AgentContent(t.agent),
      confidence |-> t.confidence,
      sources |-> AgentSources(t.agent),
      metadata |-> EmptyDict ]

\* The lists that agent_registry.route_query may return: (agent, priority)
\* pairs of distinct agents.
AssignmentLists(n) ==
    { s \in [1 .. n -> [agent : Agents, priority : Priorities]] :
        \A i, j \in 1 .. n : i # j => s[i].agent # s[j].agent }

RouteChoices == UNION { AssignmentLists(n) : n \in 0 .. MaxAgents }

\* _execute_agents, lines 178-182: one task per assignment, named by asyncio.
CreateTasks(assignments, counter) ==
    [ i \in 1 .. Len(assignments) |->
        [ agent |-> assignments[i].agent,
          priority |-> assignments[i].priority,
          name |-> counter + i,
          state |-> "running",
          confidence |-> 0 ] ]

\* --------------------------------------- _execute_agents, lines 187-196
\* Lines 190-192: the response is annotated in place.
Annotate(r, t) ==
    [r EXCEPT !.metadata =
        DictSet(DictSet(r.metadata, "priority", t.priority),
                "agent_role", TaskName(t.name))]

\* Mutant: the filter lets a confidence of 0 through.
SurvivesNonNegative(r) == r.confidence >= 0

\* Line 190: the filter.
Survives(r) == r.confidence > 0

RECURSIVE FilterResponses(_, _)
FilterResponses(ts, i) ==
    IF i > Len(ts) THEN <<>>
    ELSE LET r == AgentResponse(i, ts[i]) IN
         (IF Survives(r) THEN <<Annotate(r, ts[i])>> ELSE <<>>)
            \o FilterResponses(ts, i + 1)

SortKey(r) == DictGet(r.metadata, "priority", 0)

\* Mutant: an unstable descending sort (equal keys change places).
RECURSIVE InsertByPriorityUnstable(_, _)
InsertByPriorityUnstable(x, sorted) ==
    IF sorted = <<>> THEN <<x>>
    ELSE IF SortKey(Head(sorted)) > SortKey(x)
         THEN <<Head(sorted)>> \o InsertByPriorityUnstable(x, Tail(sorted))
         ELSE <<x>> \o sorted

\* list.sort(key, reverse=True) is stable: an element goes behind every
\* element whose key is greater than or equal to its own.
RECURSIVE InsertByPriority(_, _)
InsertByPriority(x, sorted) ==
    IF sorted = <<>> THEN <<x>>
    ELSE IF SortKey(Head(sorted)) >= SortKey(x)
         THEN <<Head(sorted)>> \o InsertByPriority(x, Tail(sorted))
         ELSE <<x>> \o sorted

RECURSIVE SortByPriority(_)
SortByPriority(rs) ==
    IF rs = <<>> THEN <<>>
    ELSE InsertByPriority(rs[Len(rs)], SortByPriority(SubSeq(rs, 1, Len(rs) - 1)))

SuccessfulResponses(ts) == SortByPriority(FilterResponses(ts, 1))

\* ---------------------------------------- _extract_sources, lines 269-283
Take(s, n) == SubSeq(s, 1, IF Len(s) < n THEN Len(s) ELSE n)

SourceId(d) ==
    << Take(DocTable(d).page_content, SourcePrefixLen),
       IF DocTable(d).source = "absent" THEN "unknown" ELSE DocTable(d).source >>

RECURSIVE Concat(_)
Concat(ss) == IF ss = <<>> THEN <<>> ELSE Head(ss) \o Concat(Tail(ss))

\* Mutant: the key of a kept source is never added to seen_sources.
DedupForgetful(ds, seen) == SelectSeq(ds, LAMBDA d : SourceId(d) \notin seen)

RECURSIVE Dedup(_, _)
Dedup(ds, seen) ==
    IF ds = <<>> THEN <<>>
    ELSE IF SourceId(Head(ds)) \in seen THEN Dedup(Tail(ds), seen)
    ELSE <<Head(ds)>> \o Dedup(Tail(ds), seen \cup {SourceId(Head(ds))})

ExtractSources(rs) == Dedup(Concat([i \in 1 .. Len(rs) |-> rs[i].sources]), {})

\* -------------------------------------- _generate_metadata, lines 285-302
RECURSIVE SumConfidence(_)
SumConfidence(rs) ==
    IF rs = <<>> THEN 0 ELSE Head(rs).confidence + SumConfidence(Tail(rs))

AgentRoles(rs) == [i \in 1 .. Len(rs) |-> DictGet(rs[i].metadata, "agent_role", Unknown)]

GenerateMetadata(rs) ==
    [ agent_count |-> Len(rs),
      agent_roles |-> AgentRoles(rs),
      total_confidence |-> SumConfidence(rs) ]

\* ------------------------------------------- _assess_quality, lines 259-267
\* The score for the text the generation model returned.
ScoreOfText(text) ==
    LET p == ParseFloat(Strip(text)) IN IF p.ok THEN p.value ELSE DefaultScore

\* What the awaited quality call did: text returned, or an exception raised.
Returned(text) == [kind |-> "text", text |-> text, error |-> NoException]
Raised(e) == [kind |-> "raise", text |-> <<>>, error |-> e]

\* Mutant: an exception of the quality call is not caught in _assess_quality.
AssessOutcomePropagates(o) ==
    IF o.kind = "raise"
    THEN [raised |-> TRUE, value |-> 0, error |-> o.error]
    ELSE [raised |-> FALSE, value |-> ScoreOfText(o.text), error |-> NoException]

\* Lines 252-267: the two try blocks around the quality call and float().
AssessOutcome(o) ==
    IF o.kind = "raise"
    THEN [raised |-> FALSE, value |-> FailedScore, error |-> NoException]
    ELSE [raised |-> FALSE, value |-> ScoreOfText(o.text), error |-> NoException]

\* Mutant: the quality call is issued without contributions too.
QualityPlanAlwaysCalls(rs) == [call |-> TRUE, value |-> 0]

\* Lines 238-239: no generation call without contributions.
QualityPlan(rs) ==
    IF rs = <<>> THEN [call |-> FALSE, value |-> EmptyScore]
    ELSE [call |-> TRUE, value |-> 0]

\* Mutant: a single contribution is sent to the generation model as well.
SynthesisPlanAlwaysSynthesizes(rs) ==
    IF rs = <<>> THEN [call |-> FALSE, text |-> <<DegradedMessage>>]
    ELSE [call |-> TRUE, text |-> <<>>]

\* ------------------------------------- _synthesize_responses, lines 208-212
SynthesisPlan(rs) ==
    IF rs = <<>> THEN [call |-> FALSE, text |-> <<DegradedMessage>>]
    ELSE IF Len(rs) = 1 THEN [call |-> FALSE, text |-> rs[1].content]
    ELSE [call |-> TRUE, text |-> <<>>]

\* ====================================================== GraphRAGPipeline
\* (aviation-graph-rag/src/core/graph_rag.py)
\* ------------------------------------------------- inputs (small sets)
\* What the generation model answers to the intent prompt, as fragments.
IntentTexts ==
    { <<"flight_info">>, <<" ", "Safety", "\n">>, <<"maintenance">>,
      <<"customer_service">>, <<"weather">> }

\* str.lower() on a fragment
Lower(w) == CASE w = "Safety" -> "safety" [] OTHER -> w

GraphAnswers == {<<"generated answer">>}

\* Values of the graph driver: nodes carry labels, relationships a type.
Node(id, labels, properties) ==
    [kind |-> "node", identity |-> id, labels |-> labels, properties |-> properties]

Relationship(id, type) ==
    [kind |-> "relationship", identity |-> id, type |-> type, properties |-> EmptyDict]

Named(name) == DictSet(EmptyDict, "name", name)

\* The records the graph adapter can return, each the values of one row in
\* the order of its RETURN clause.
GraphRecord(r) ==
    CASE r = 1 -> << Node(1, <<"Flight">>, Named("AA123")),
                     Node(2, <<"Airport">>, Named("JFK")),
                     Node(3, <<"Airport">>, Named("LAX")),
                     Node(4, <<"Aircraft">>, EmptyDict) >>
      [] r = 2 -> << Node(5, <<"Flight">>, Named("DL456")),
                     Node(2, <<"Airport">>, Named("JFK")),
                     Node(6, <<"Airport">>, Named("ORD")),
                     Node(7, <<"Aircraft">>, Named("B737")) >>
      [] r = 3 -> << Node(8, <<"SafetyProtocol">>, Named("evacuation")),
                     Relationship(9, "ENFORCED_BY") >>
      [] OTHER -> << Relationship(10, "REQUIRES") >>

GraphRecordIds == 1 .. 4

\* Sequences of at most n distinct elements of S.
DistinctSeqs(S, n) ==
    {q \in UNION {[1 .. k -> S] : k \in 0 .. n} :
        \A i, j \in 1 .. Len(q) : i # j => q[i] # q[j]}

GraphResults ==
    {[i \in 1 .. Len(q) |-> GraphRecord(q[i])] : q \in DistinctSeqs(GraphRecordIds, MaxRecords)}

\* The passages the vector adapter can return (handles into DocTable);
\* passages 3 and 5 have the same content and the same source metadata.
VectorDocs == {1, 3, 5}

VectorResults == UNION {[1 .. n -> VectorDocs] : n \in 0 .. MaxPassages}

GraphErrors == {"adapter unavailable"}

\* --------------------------------------------------------- program constants
FallbackIntent == <<"general">>
ApologyMessage ==
    <<"I apologize, but I'm unable to process your request at the moment. Please try again later.">>
ConfidenceCap == 90
ConfidenceFloor == 10
CoverageDivisor == 10
ExcerptLen == 200

\* -------------------------------------------- _classify_intent, lines 152-161
NormalizeIntent(text) == LET t == Strip(text) IN [i \in 1 .. Len(t) |-> Lower(t[i])]

\* Mutant: no generic plan; an unlisted intent gets the flight plan.
BuildCypherQueryNoFallback(intent) ==
    CASE intent = <<"safety">> -> "MATCH (sp:SafetyProtocol) ... RETURN sp, r, e"
      [] intent = <<"maintenance">> -> "MATCH (m:Maintenance) ... RETURN m, e, p"
      [] OTHER -> "MATCH (f:Flight) ... RETURN f, dep, arr, a LIMIT 10"

\* ----------------------------------------- _build_cypher_query, lines 198-235
BuildCypherQuery(intent) ==
    CASE intent = <<"flight_info">> -> "MATCH (f:Flight) ... RETURN f, dep, arr, a LIMIT 10"
      [] intent = <<"safety">> -> "MATCH (sp:SafetyProtocol) ... RETURN sp, r, e"
      [] intent = <<"maintenance">> -> "MATCH (m:Maintenance) ... RETURN m, e, p"
      [] OTHER -> "MATCH (n) WHERE n.name CONTAINS $search_term RETURN n LIMIT 5"

GenericQuery == "MATCH (n) WHERE n.name CONTAINS $search_term RETURN n LIMIT 5"

\* -------------------------------------- _process_graph_results, lines 237-264
IsNode(v) == v.kind = "node"

IsRelationship(v) == v.kind = "relationship"

ProcessGraphResults(results, intent) ==
    LET values == Concat(results)
        ns == SelectSeq(values, IsNode)
        rels == SelectSeq(values, IsRelationship)
    IN  [ nodes |-> [i \in 1 .. Len(ns) |->
                        [id |-> ns[i].identity, labels |-> ns[i].labels,
                         properties |-> ns[i].properties]],
          relationships |-> [i \in 1 .. Len(rels) |->
                        [id |-> rels[i].identity, type |-> rels[i].type,
                         properties |-> rels[i].properties]],
          paths |-> <<>>,
          intent |-> <<intent>> ]

\* Line 196: what _traverse_graph returns when it caught an exception (the
\* dict has no 'intent' key).
FailedGraphContext == [nodes |-> <<>>, relationships |-> <<>>, paths |-> <<>>, intent |-> <<>>]

\* ------------------------------------------- _combine_contexts, lines 303-321
RECURSIVE JoinLines(_)
JoinLines(lines) ==
    IF lines = <<>> THEN <<>>
    ELSE IF Len(lines) = 1 THEN lines[1]
    ELSE Head(lines) \o <<"\n">> \o JoinLines(Tail(lines))

NodeLine(node) == <<"- ", node.labels[1], ": ", DictGet(node.properties, "name", "N/A")>>

DocLine(d) == <<"- ">> \o Take(DocTable(d).page_content, ExcerptLen) \o <<"...">>

\* Mutant: the documents are rendered before the graph information.
CombineContextsDocumentsFirst(nodes, relationships, vector_context) ==
    JoinLines(
        (IF vector_context # <<>>
         THEN <<(<<"\nRelated Documents:">>)>>
              \o [i \in 1 .. Len(vector_context) |-> DocLine(vector_context[i])]
         ELSE <<>>)
        \o
        (IF nodes # <<>>
         THEN <<(<<"Graph Information:">>)>> \o [i \in 1 .. Len(nodes) |-> NodeLine(nodes[i])]
         ELSE <<>>))

CombineContexts(nodes, relationships, vector_context) ==
    JoinLines(
        (IF nodes # <<>>
         THEN <<(<<"Graph Information:">>)>> \o [i \in 1 .. Len(nodes) |-> NodeLine(nodes[i])]
         ELSE <<>>)
        \o
        (IF vector_context # <<>>
         THEN <<(<<"\nRelated Documents:">>)>>
              \o [i \in 1 .. Len(vector_context) |-> DocLine(vector_context[i])]
         ELSE <<>>))

\* ----------------------------------------------- _fuse_context, lines 289-301
FuseContext(graph_context, vector_context) ==
    [ graph_nodes |-> graph_context.nodes,
      graph_relationships |-> graph_context.relationships,
      vector_documents |-> [i \in 1 .. Len(vector_context) |->
                                DocTable(vector_context[i]).page_content],
      combined_context |-> CombineContexts(graph_context.nodes,
                                           graph_context.relationships, vector_context) ]

\* ------------------------------------------ _assess_confidence, lines 344-355
Min(a, b) == IF a < b THEN a ELSE b

Max(a, b) == IF a > b THEN a ELSE b

\* Mutant: the result is capped but not floored.
AssessConfidenceNoFloor(context) ==
    Min(ConfidenceCap,
        ((Len(context.graph_nodes) + Len(context.vector_documents)) * 100)
            \div CoverageDivisor)

AssessConfidence(context) ==
    LET graph_nodes == Len(context.graph_nodes)
        vector_docs == Len(context.vector_documents)
        confidence == Min(ConfidenceCap, ((graph_nodes + vector_docs) * 100) \div CoverageDivisor)
    IN  Max(ConfidenceFloor, confidence)

\* -------------------------------------------- _extract_sources, lines 357-381
GraphExtractSources(graph_context, vector_context) ==
    [i \in 1 .. Len(graph_context.nodes) |->
        [ type |-> "graph", id |-> graph_context.nodes[i].id,
          labels |-> graph_context.nodes[i].labels,
          properties |-> graph_context.nodes[i].properties ]]
    \o
    [i \in 1 .. Len(vector_context) |->
        [ type |-> "vector", id |-> <<"vector_", i - 1>>,
          content |-> Take(DocTable(vector_context[i]).page_content, ExcerptLen),
          metadata |-> IF DocTable(vector_context[i]).source = "absent"
                       THEN EmptyDict
                       ELSE DictSet(EmptyDict, "source", DocTable(vector_context[i]).source) ]]

\* Mutant: an answer that is the apology gets the floor confidence.
GraphRAGResponseDoubting(answer, graph_context, vector_context, fused, intent) ==
    [ answer |-> answer,
      sources |-> GraphExtractSources(graph_context, vector_context),
      confidence |-> IF answer = ApologyMessage THEN ConfidenceFloor
                     ELSE AssessConfidence(fused),
      graph_paths |-> graph_context.paths,
      vector_sources |-> vector_context,
      metadata |-> [intent |-> intent, entities |-> <<>>, processing_time |-> <<>>] ]

\* --------------------------------------------- process_query, lines 139-150
GraphRAGResponse(answer, graph_context, vector_context, fused, intent) ==
    [ answer |-> answer,
      sources |-> GraphExtractSources(graph_context, vector_context),
      confidence |-> AssessConfidence(fused),
      graph_paths |-> graph_context.paths,
      vector_sources |-> vector_context,
      metadata |-> [intent |-> intent, entities |-> <<>>, processing_time |-> <<>>] ]

\* ------------------------------------------------------------------ state
\* ------------------------------------------------------------ rationals
\* A float that is a quotient of integers is kept exactly, as a reduced
\* fraction [num, den] with den > 0.
RECURSIVE GCD(_, _)
GCD(a, b) == IF b = 0 THEN a ELSE GCD(b, a % b)

Rat(n, d) ==
    LET g == GCD(n, d)
    IN  IF g = 0 THEN [num |-> 0, den |-> 1] ELSE [num |-> n \div g, den |-> d \div g]

RatOfInt(n) == [num |-> n, den |-> 1]
RatMulInt(q, n) == Rat(q.num * n, q.den)
RatAddInt(q, n) == Rat(q.num + n * q.den, q.den)
RatDivInt(q, n) == Rat(q.num, q.den * n)
RatEq(q, n, d) == q.num * d = n * q.den

\* ---------------------------------------------------------- initial state
\* __init__, lines 49-51
MetricsZero ==
    /\ total_orchestrations = 0
    /\ successful_orchestrations = 0
    /\ average_processing_time = RatOfInt(0)

\* no orchestrate_query call has been made
OrchestratorIdle ==
    /\ pc = "idle"
    /\ agent_assignments = <<>>
    /\ tasks = <<>>
    /\ gather_exc = NoException
    /\ agent_responses = <<>>
    /\ final_response = <<>>
    /\ result = <<>>
    /\ synthesis_calls = 0
    /\ quality_calls = 0

\* overlapped is a history field: the call started while another one ran
IdleCall == [state |-> "idle", success |-> FALSE, processing_time |-> 0, overlapped |-> FALSE]

CallsIdle == calls = [c \in 1 .. NumCalls |-> IdleCall]

\* no process_query call has been made
GraphIdle ==
    /\ g_pc = "idle"
    /\ g_intent = <<>>
    /\ g_cypher_query = <<>>
    /\ g_graph_records = <<>>
    /\ g_graph_context = FailedGraphContext
    /\ g_vector_results = <<>>
    /\ g_vector_context = <<>>
    /\ g_fused_context = <<>>
    /\ g_generation_calls = 0
    /\ g_log = {}
    /\ g_result = <<>>

Init ==
    /\ OrchestratorIdle
    /\ task_counter \in 0 .. MaxPriorTasks
    /\ MetricsZero
    /\ CallsIdle
    /\ GraphIdle

\* Mutant: every recorded call is counted as a success.
UpdateMetricsCountsFailures(processing_time, success) ==
    /\ successful_orchestrations' = successful_orchestrations + 1
    /\ average_processing_time' =
          IF total_orchestrations > 0
          THEN RatDivInt(RatAddInt(RatMulInt(average_processing_time,
                                             total_orchestrations - 1),
                                   processing_time),
                         total_orchestrations)
          ELSE average_processing_time

\* ------------------------------------------ _update_metrics, lines 304-314
UpdateMetrics(processing_time, success) ==
    /\ successful_orchestrations' =
          IF success THEN successful_orchestrations + 1 ELSE successful_orchestrations
    /\ average_processing_time' =
          IF total_orchestrations > 0
          THEN RatDivInt(RatAddInt(RatMulInt(average_processing_time,
                                             total_orchestrations - 1),
                                   processing_time),
                         total_orchestrations)
          ELSE average_processing_time

\* Mutant: a returned result is recorded as a failed orchestration.
ReturnResultAsFailure(rs, final, confidence, processing_time) ==
    /\ UpdateMetrics(processing_time, FALSE)
    /\ result' = << [ final_response |-> final,
                      agent_responses |-> rs,
                      confidence |-> confidence,
                      sources |-> ExtractSources(rs),
                      metadata |-> GenerateMetadata(rs),
                      processing_time |-> processing_time,
                      agent_sequence |-> AgentRoles(rs) ] >>
    /\ pc' = "returned"

\* ------------------------------------------ orchestrate_query, lines 126-151
ReturnResult(rs, final, confidence, processing_time) ==
    /\ UpdateMetrics(processing_time, TRUE)
    /\ result' = << [ final_response |-> final,
                      agent_responses |-> rs,
                      confidence |-> confidence,
                      sources |-> ExtractSources(rs),
                      metadata |-> GenerateMetadata(rs),
                      processing_time |-> processing_time,
                      agent_sequence |-> AgentRoles(rs) ] >>
    /\ pc' = "returned"

\* ------------------------------------------ orchestrate_query, lines 153-168
ReturnError(e, processing_time) ==
    /\ UpdateMetrics(processing_time, FALSE)
    /\ result' = << [ final_response |-> ErrorMessage(e),
                      agent_responses |-> <<>>,
                      confidence |-> ErrorConfidence,
                      sources |-> <<>>,
                      metadata |-> [error |-> e],
                      processing_time |-> processing_time,
                      agent_sequence |-> <<>> ] >>
    /\ pc' = "returned"

\* Mutant: the routing call is made before the try block is entered.
InTryBlockAfterRouting(step) == step \in {"execute", "synthesize", "assess"}

\* The steps that lie inside the try block of lines 101-151.
InTryBlock(step) == step \in {"route", "execute", "synthesize", "assess"}

\* An exception leaving a step of orchestrate_query.
Raise(step, e) ==
    IF InTryBlock(step)
    THEN \E t \in Durations : ReturnError(e, t)
    ELSE /\ pc' = "raised"
         /\ UNCHANGED << result, successful_orchestrations, average_processing_time >>

\* Lines 119-151, entered with the final response in hand.
AfterSynthesis(rs, final) ==
    /\ final_response' = final
    /\ IF QualityPlan(rs).call
       THEN /\ quality_calls' = quality_calls + 1
            /\ pc' = "quality"
            /\ UNCHANGED << result, successful_orchestrations, average_processing_time >>
       ELSE /\ quality_calls' = quality_calls
            /\ \E t \in Durations : ReturnResult(rs, final, QualityPlan(rs).value, t)

\* Lines 110-117, entered when _execute_agents has returned rs.
AfterExecute(rs) ==
    /\ agent_responses' = rs
    /\ IF SynthesisPlan(rs).call
       THEN /\ synthesis_calls' = synthesis_calls + 1
            /\ pc' = "synthesis"
            /\ UNCHANGED << final_response, quality_calls, result,
                            successful_orchestrations, average_processing_time >>
       ELSE /\ synthesis_calls' = synthesis_calls
            /\ AfterSynthesis(rs, SynthesisPlan(rs).text)

\* ---------------------------------------------------------------- actions
\* Lines 98-107: the call starts and awaits the routing.
OrchestrateQuery ==
    /\ pc = "idle"
    /\ pc' = "route"
    /\ total_orchestrations' = total_orchestrations + 1
    /\ UNCHANGED << agent_assignments, tasks, gather_exc, agent_responses, final_response, result,
                    synthesis_calls, quality_calls, task_counter,
                    successful_orchestrations, average_processing_time >>
    /\ UNCHANGED << calls, graphVars >>

\* Lines 107, 178-185: the routing returns, the tasks are created and
\* gathered; gather() of no task is already complete, so the call runs on.
RouteReturn(assignments) ==
    /\ pc = "route"
    /\ agent_assignments' = <<assignments>>
    /\ tasks' = CreateTasks(assignments, task_counter)
    /\ task_counter' = task_counter + Len(assignments)
    /\ IF Len(assignments) = 0
       THEN AfterExecute(SuccessfulResponses(tasks'))
       ELSE /\ pc' = "gather"
            /\ UNCHANGED << agent_responses, final_response, result, synthesis_calls,
                            quality_calls, successful_orchestrations,
                            average_processing_time >>
    /\ UNCHANGED << gather_exc, total_orchestrations >>
    /\ UNCHANGED << calls, graphVars >>

RouteRaise(e) ==
    /\ pc = "route"
    /\ Raise("route", e)
    /\ UNCHANGED << agent_assignments, tasks, gather_exc, agent_responses, final_response,
                    synthesis_calls, quality_calls, task_counter, total_orchestrations >>
    /\ UNCHANGED << calls, graphVars >>

\* agent.execute(context) of task i returns a response.
AgentDone(i, c) ==
    /\ i \in DOMAIN tasks
    /\ tasks[i].state = "running"
    /\ tasks' = [tasks EXCEPT ![i].state = "done", ![i].confidence = c]
    /\ UNCHANGED << pc, agent_assignments, gather_exc, agent_responses, final_response, result,
                    synthesis_calls, quality_calls, task_counter,
                    total_orchestrations, successful_orchestrations,
                    average_processing_time >>
    /\ UNCHANGED << calls, graphVars >>

\* agent.execute(context) of task i raises: gather (line 185, no
\* return_exceptions) takes the first exception as its own outcome.
AgentRaise(i) ==
    /\ i \in DOMAIN tasks
    /\ tasks[i].state = "running"
    /\ tasks' = [tasks EXCEPT ![i].state = "raised"]
    /\ gather_exc' = IF pc = "gather" /\ gather_exc = NoException
                     THEN AgentError(tasks[i].agent)
                     ELSE gather_exc
    /\ UNCHANGED << pc, agent_assignments, agent_responses, final_response, result,
                    synthesis_calls, quality_calls, task_counter,
                    total_orchestrations, successful_orchestrations,
                    average_processing_time >>
    /\ UNCHANGED << calls, graphVars >>

\* agent.execute(context) of task i awaits something that never comes
\* (line 181 sets no timeout).
AgentHang(i) ==
    /\ i \in DOMAIN tasks
    /\ tasks[i].state = "running"
    /\ tasks' = [tasks EXCEPT ![i].state = "hung"]
    /\ UNCHANGED << pc, agent_assignments, gather_exc, agent_responses, final_response, result,
                    synthesis_calls, quality_calls, task_counter,
                    total_orchestrations, successful_orchestrations,
                    average_processing_time >>
    /\ UNCHANGED << calls, graphVars >>

\* Mutant: the gather returns as soon as one task has a result.
GatherReturnEarly ==
    /\ pc = "gather"
    /\ gather_exc = NoException
    /\ \E i \in DOMAIN tasks : tasks[i].state = "done"
    /\ AfterExecute(SuccessfulResponses(tasks))
    /\ UNCHANGED << agent_assignments, tasks, gather_exc, task_counter, total_orchestrations >>
    /\ UNCHANGED << calls, graphVars >>

\* Lines 185-202: every task has a result; filter, annotate, sort, go on.
GatherReturn ==
    /\ pc = "gather"
    /\ gather_exc = NoException
    /\ \A i \in DOMAIN tasks : tasks[i].state = "done"
    /\ AfterExecute(SuccessfulResponses(tasks))
    /\ UNCHANGED << agent_assignments, tasks, gather_exc, task_counter, total_orchestrations >>
    /\ UNCHANGED << calls, graphVars >>

\* Line 185: the await of gather raises the first task exception; the
\* other tasks are left as they are.
GatherRaise ==
    /\ pc = "gather"
    /\ gather_exc # NoException
    /\ Raise("execute", gather_exc)
    /\ UNCHANGED << agent_assignments, tasks, gather_exc, agent_responses, final_response,
                    synthesis_calls, quality_calls, task_counter, total_orchestrations >>
    /\ UNCHANGED << calls, graphVars >>

\* Lines 226-232: the synthesis generation call returns.
SynthesisReturn(text) ==
    /\ pc = "synthesis"
    /\ AfterSynthesis(agent_responses, <<text>>)
    /\ UNCHANGED << agent_assignments, tasks, gather_exc, agent_responses, synthesis_calls,
                    task_counter, total_orchestrations >>
    /\ UNCHANGED << calls, graphVars >>

SynthesisRaise(e) ==
    /\ pc = "synthesis"
    /\ Raise("synthesize", e)
    /\ UNCHANGED << agent_assignments, tasks, gather_exc, agent_responses, final_response,
                    synthesis_calls, quality_calls, task_counter, total_orchestrations >>
    /\ UNCHANGED << calls, graphVars >>

\* Lines 252-267, 126-151: the quality generation call ends with outcome o.
QualityEnds(o) ==
    /\ pc = "quality"
    /\ LET a == AssessOutcome(o) IN
       IF a.raised
       THEN Raise("assess", a.error)
       ELSE \E t \in Durations : ReturnResult(agent_responses, final_response, a.value, t)
    /\ UNCHANGED << agent_assignments, tasks, gather_exc, agent_responses, final_response,
                    synthesis_calls, quality_calls, task_counter, total_orchestrations >>
    /\ UNCHANGED << calls, graphVars >>

QualityReturn(text) == QualityEnds(Returned(text))

QualityRaise(e) == QualityEnds(Raised(e))

\* The caller cancels the call while it is suspended: CancelledError is not
\* an Exception, so lines 153-168 do not run; a pending gather cancels its
\* children, a gather that already holds an exception does not.
Cancel ==
    /\ pc \in {"route", "gather", "synthesis", "quality"}
    /\ pc' = "cancelled"
    /\ tasks' = IF pc = "gather" /\ gather_exc = NoException
                THEN [i \in DOMAIN tasks |->
                        IF tasks[i].state \in {"running", "hung"}
                        THEN [tasks[i] EXCEPT !.state = "cancelled"]
                        ELSE tasks[i]]
                ELSE tasks
    /\ UNCHANGED << agent_assignments, gather_exc, agent_responses, final_response, result,
                    synthesis_calls, quality_calls, task_counter,
                    total_orchestrations, successful_orchestrations,
                    average_processing_time >>
    /\ UNCHANGED << calls, graphVars >>

Progress ==
    \/ OrchestrateQuery
    \/ \E a \in RouteChoices : RouteReturn(a)
    \/ \E e \in RouteErrors : RouteRaise(e)
    \/ \E i \in 1 .. MaxAgents, c \in AgentConfidences : AgentDone(i, c)
    \/ \E i \in 1 .. MaxAgents : AgentRaise(i)
    \/ \E i \in 1 .. MaxAgents : AgentHang(i)
    \/ GatherReturn
    \/ GatherRaise
    \/ \E text \in SynthesisTexts : SynthesisReturn(text)
    \/ \E e \in GenerationErrors : SynthesisRaise(e)
    \/ \E text \in QualityTexts : QualityReturn(text)
    \/ \E e \in GenerationErrors : QualityRaise(e)

Next == Progress \/ Cancel

Spec == Init /\ [][Next]_vars

\* The event loop runs every step that is ready; only the caller's
\* cancellation is left to the caller.
LiveSpec == Init /\ [][Next]_vars /\ WF_vars(Progress)

\* ======================================== overlapping orchestrate_query calls
\* Several calls run on the one orchestrator, on one event loop. A call is
\* followed from line 98 to its return; what it does in between (Spec above)
\* awaits and touches none of the metrics, so other calls run in between.
Running == {c \in 1 .. NumCalls : calls[c].state = "running"}

\* Lines 98-99 of call c, up to its first await.
StartCall(c) ==
    /\ calls[c].state = "idle"
    /\ calls' = [calls EXCEPT ![c].state = "running", ![c].overlapped = Running # {}]
    /\ total_orchestrations' = total_orchestrations + 1
    /\ UNCHANGED << successful_orchestrations, average_processing_time >>
    /\ UNCHANGED << orchestratorVars, graphVars >>

\* Lines 132-151 (success) or 153-168 (an Exception was caught) of call c.
FinishCall(c, t, success) ==
    /\ calls[c].state = "running"
    /\ UpdateMetrics(t, success)
    /\ calls' = [calls EXCEPT ![c].state = "returned", ![c].success = success,
                                ![c].processing_time = t]
    /\ UNCHANGED total_orchestrations
    /\ UNCHANGED << orchestratorVars, graphVars >>

CallSucceeds(c, t) == FinishCall(c, t, TRUE)

CallFails(c, t) == FinishCall(c, t, FALSE)

\* Call c is cancelled while suspended: neither line 133 nor line 155 runs.
CallCancelled(c) ==
    /\ calls[c].state = "running"
    /\ calls' = [calls EXCEPT ![c].state = "cancelled"]
    /\ UNCHANGED << metricsVars, orchestratorVars, graphVars >>

\* get_orchestrator_metrics, lines 316-328 (the fields the counters feed)
GetOrchestratorMetrics ==
    [ total_orchestrations |-> total_orchestrations,
      successful_orchestrations |-> successful_orchestrations,
      success_rate |-> IF total_orchestrations > 0
                       THEN Rat(successful_orchestrations, total_orchestrations)
                       ELSE RatOfInt(0),
      average_processing_time |-> average_processing_time ]

MetricsInit ==
    /\ OrchestratorIdle
    /\ task_counter = 0
    /\ MetricsZero
    /\ CallsIdle
    /\ GraphIdle

MetricsNext ==
    \/ \E c \in 1 .. NumCalls : StartCall(c)
    \/ \E c \in 1 .. NumCalls, t \in Durations : CallSucceeds(c, t)
    \/ \E c \in 1 .. NumCalls, t \in Durations : CallFails(c, t)
    \/ \E c \in 1 .. NumCalls : CallCancelled(c)

MetricsSpec == MetricsInit /\ [][MetricsNext]_vars

\* ============================================ GraphRAGPipeline.process_query
\* One process_query call, from one await to the next.

\* Mutant: _traverse_graph has no except clause.
GuardedButTraversal(step) == step \in {"classify", "entities", "vector", "generate"}

\* The steps whose body is a try with an `except Exception` clause
\* (lines 159, 172, 194, 285, 340).
Guarded(step) == step \in {"classify", "entities", "graph", "vector", "generate"}

\* An exception inside a step: its except clause runs, or it leaves
\* process_query (which has no try of its own).
Handle(step, handler) ==
    IF Guarded(step)
    THEN handler
    ELSE /\ g_pc' = "raised"
         /\ UNCHANGED << g_intent, g_cypher_query, g_graph_records, g_graph_context,
                         g_vector_results, g_vector_context, g_fused_context,
                         g_generation_calls, g_log, g_result >>

\* Lines 116-119: the call starts and awaits the intent generation call.
ProcessQuery ==
    /\ g_pc = "idle"
    /\ g_pc' = "classify"
    /\ g_log' = g_log \cup {"Processing query"}
    /\ UNCHANGED << g_intent, g_cypher_query, g_graph_records, g_graph_context,
                    g_vector_results, g_vector_context, g_fused_context,
                    g_generation_calls, g_result >>
    /\ UNCHANGED << orchestratorVars, metricsVars, calls >>

\* Lines 122, 166-167: with the intent in hand, _extract_entities awaits its
\* generation call.
AfterClassify(intent, event) ==
    /\ g_intent' = intent
    /\ g_log' = g_log \cup {event}
    /\ g_pc' = "entities"
    /\ UNCHANGED << g_cypher_query, g_graph_records, g_graph_context,
                    g_vector_results, g_vector_context, g_fused_context,
                    g_generation_calls, g_result >>

\* Lines 156-158
ClassifyReturn(text) ==
    /\ g_pc = "classify"
    /\ AfterClassify(NormalizeIntent(text), "Intent classified")
    /\ UNCHANGED << orchestratorVars, metricsVars, calls >>

\* Lines 159-161
ClassifyRaise(e) ==
    /\ g_pc = "classify"
    /\ Handle("classify", AfterClassify(FallbackIntent, "Intent classification failed"))
    /\ UNCHANGED << orchestratorVars, metricsVars, calls >>

\* Lines 125, 180-183: the entities are [] either way (line 169 is a
\* placeholder); _traverse_graph builds its query and awaits the adapter.
AfterEntities(event) ==
    /\ g_log' = g_log \cup {event}
    /\ g_cypher_query' = <<BuildCypherQuery(g_intent)>>
    /\ g_pc' = "graph"
    /\ UNCHANGED << g_intent, g_graph_records, g_graph_context,
                    g_vector_results, g_vector_context, g_fused_context,
                    g_generation_calls, g_result >>

EntitiesReturn ==
    /\ g_pc = "entities"
    /\ AfterEntities("Entities extracted")
    /\ UNCHANGED << orchestratorVars, metricsVars, calls >>

EntitiesRaise(e) ==
    /\ g_pc = "entities"
    /\ Handle("entities", AfterEntities("Entity extraction failed"))
    /\ UNCHANGED << orchestratorVars, metricsVars, calls >>

\* Lines 128, 270: with the graph context in hand, _search_vector awaits the
\* embedding of the query.
AfterTraversal(records, graph_context, event) ==
    /\ g_graph_records' = records
    /\ g_graph_context' = graph_context
    /\ g_log' = g_log \cup {event}
    /\ g_pc' = "embed"
    /\ UNCHANGED << g_intent, g_cypher_query, g_vector_results, g_vector_context,
                    g_fused_context, g_generation_calls, g_result >>

\* Lines 183-192
GraphReturn(records) ==
    /\ g_pc = "graph"
    /\ AfterTraversal(records, ProcessGraphResults(records, g_intent),
                      "Graph traversal completed")
    /\ UNCHANGED << orchestratorVars, metricsVars, calls >>

\* Lines 194-196
GraphRaise(e) ==
    /\ g_pc = "graph"
    /\ Handle("graph", AfterTraversal(<<>>, FailedGraphContext, "Graph traversal failed"))
    /\ UNCHANGED << orchestratorVars, metricsVars, calls >>

\* Line 183 sets no timeout: the adapter may never answer.
GraphHang ==
    /\ g_pc = "graph"
    /\ g_pc' = "graph_hung"
    /\ UNCHANGED << g_intent, g_cypher_query, g_graph_records, g_graph_context,
                    g_vector_results, g_vector_context, g_fused_context,
                    g_generation_calls, g_log, g_result >>
    /\ UNCHANGED << orchestratorVars, metricsVars, calls >>

\* Lines 270-273: the embedding returns, the vector adapter is awaited.
EmbedReturn ==
    /\ g_pc = "embed"
    /\ g_pc' = "vector"
    /\ UNCHANGED << g_intent, g_cypher_query, g_graph_records, g_graph_context,
                    g_vector_results, g_vector_context, g_fused_context,
                    g_generation_calls, g_log, g_result >>
    /\ UNCHANGED << orchestratorVars, metricsVars, calls >>

\* Lines 131-134, 328-330: with the vector context in hand the contexts
\* are fused and _generate_response awaits its generation call.
AfterSearch(results, vector_context, event) ==
    /\ g_vector_results' = results
    /\ g_vector_context' = vector_context
    /\ g_log' = g_log \cup {event}
    /\ g_fused_context' = <<FuseContext(g_graph_context, vector_context)>>
    /\ g_generation_calls' = g_generation_calls + 1
    /\ g_pc' = "generate"
    /\ UNCHANGED << g_intent, g_cypher_query, g_graph_records, g_graph_context, g_result >>

\* Lines 273-283
VectorReturn(results) ==
    /\ g_pc = "vector"
    /\ AfterSearch(results, results, "Vector search completed")
    /\ UNCHANGED << orchestratorVars, metricsVars, calls >>

\* Lines 285-287, the embedding or the search having raised
VectorRaise(e) ==
    /\ g_pc \in {"embed", "vector"}
    /\ Handle("vector", AfterSearch(<<>>, <<>>, "Vector search failed"))
    /\ UNCHANGED << orchestratorVars, metricsVars, calls >>

\* Lines 137-150: the answer in hand, the response is built and returned.
AfterGenerate(answer, event) ==
    /\ g_log' = g_log \cup {event}
    /\ g_result' = <<GraphRAGResponse(answer, g_graph_context, g_vector_context,
                                      g_fused_context[1], g_intent)>>
    /\ g_pc' = "returned"
    /\ UNCHANGED << g_intent, g_cypher_query, g_graph_records, g_graph_context,
                    g_vector_results, g_vector_context, g_fused_context,
                    g_generation_calls >>

\* Lines 330-338
GenerateReturn(text) ==
    /\ g_pc = "generate"
    /\ AfterGenerate(text, "Response generated")
    /\ UNCHANGED << orchestratorVars, metricsVars, calls >>

\* Lines 340-342
GenerateRaise(e) ==
    /\ g_pc = "generate"
    /\ Handle("generate", AfterGenerate(ApologyMessage, "Response generation failed"))
    /\ UNCHANGED << orchestratorVars, metricsVars, calls >>

\* The caller cancels the call while it is suspended.
GraphCancel ==
    /\ g_pc \in {"classify", "entities", "graph", "graph_hung", "embed", "vector", "generate"}
    /\ g_pc' = "cancelled"
    /\ UNCHANGED << g_intent, g_cypher_query, g_graph_records, g_graph_context,
                    g_vector_results, g_vector_context, g_fused_context,
                    g_generation_calls, g_log, g_result >>
    /\ UNCHANGED << orchestratorVars, metricsVars, calls >>

GraphInit ==
    /\ OrchestratorIdle
    /\ task_counter = 0
    /\ MetricsZero
    /\ CallsIdle
    /\ GraphIdle

GraphProgress ==
    \/ ProcessQuery
    \/ \E text \in IntentTexts : ClassifyReturn(text)
    \/ \E e \in GenerationErrors : ClassifyRaise(e)
    \/ EntitiesReturn
    \/ \E e \in GenerationErrors : EntitiesRaise(e)
    \/ \E records \in GraphResults : GraphReturn(records)
    \/ \E e \in GraphErrors : GraphRaise(e)
    \/ GraphHang
    \/ EmbedReturn
    \/ \E results \in VectorResults : VectorReturn(results)
    \/ \E e \in GraphErrors : VectorRaise(e)
    \/ \E text \in GraphAnswers : GenerateReturn(text)
    \/ \E e \in GenerationErrors : GenerateRaise(e)

GraphNext == GraphProgress \/ GraphCancel

GraphSpec == GraphInit /\ [][GraphNext]_vars

\* The event loop runs every step that is ready; only the caller's
\* cancellation is left to the caller.
GraphLiveSpec == GraphInit /\ [][GraphNext]_vars /\ WF_vars(GraphProgress)

\* ================================================================ claims
Ended == pc \in {"returned", "cancelled"}

HasResult == result # <<>>

TheResult == result[1]

IsErrorResult(r) == "error" \in DOMAIN r.metadata

\* _execute_agents has returned its list to orchestrate_query.
ExecuteReturned ==
    \/ pc \in {"synthesis", "quality"}
    \/ HasResult /\ ~IsErrorResult(TheResult)

\* Every assigned agent has returned a response.
AllResponded ==
    /\ agent_assignments # <<>>
    /\ \A i \in DOMAIN tasks : tasks[i].state = "done"

Ids(rs) == {rs[k].id : k \in DOMAIN rs}

\* C1: the confidence of every returned OrchestrationResult is in [0,1],
\* whatever the agents and the generation calls return or raise.
C1_ConfidenceInUnitInterval ==
    HasResult => TheResult.confidence >= 0 /\ TheResult.confidence <= 100

\* C2: orchestrate_query never raises to its caller; a step that raises
\* (routing, agent execution through gather, synthesis) ends the call with a
\* returned result of confidence 0.0, an 'error' entry in metadata, empty
\* sources, empty agent_responses and empty agent_sequence.  (A failure of
\* the quality call is absorbed inside _assess_quality; the caller's own
\* cancellation of the call is not an exception of a step.)
C2_StepRaises ==
    \/ \E e \in RouteErrors : RouteRaise(e)
    \/ GatherRaise
    \/ \E e \in GenerationErrors : SynthesisRaise(e)

C2_NeverRaisesToCaller ==
    [][ /\ pc' # "raised"
        /\ C2_StepRaises =>
              /\ pc' = "returned"
              /\ result' # <<>>
              /\ result'[1].confidence = 0
              /\ IsErrorResult(result'[1])
              /\ result'[1].sources = <<>>
              /\ result'[1].agent_responses = <<>>
              /\ result'[1].agent_sequence = <<>> ]_vars

C2_Witness ==
    /\ pc = "returned"
    /\ HasResult
    /\ IsErrorResult(TheResult)
    /\ \E i \in DOMAIN tasks : tasks[i].state = "raised"
    /\ \E i \in DOMAIN tasks : tasks[i].state = "done" /\ tasks[i].confidence > 0

\* C3: when one agent's execute raises, every sibling response with
\* confidence > 0 is still handed to synthesis and appears in the result's
\* agent_responses.
C3_SiblingsSurviveARaise ==
    (pc = "returned" /\ \E j \in DOMAIN tasks : tasks[j].state = "raised")
        => \A i \in DOMAIN tasks :
              (tasks[i].state = "done" /\ tasks[i].confidence > 0)
                  => i \in Ids(TheResult.agent_responses)

\* C4: a call that has started eventually ends, even when an agent's execute
\* never completes.
C4_EventuallyReturns == (pc = "route") ~> Ended

\* C5: no agent task of the call is still in flight once the call has
\* returned or has been cancelled.
C5_NoTaskOutlivesTheCall ==
    Ended => \A i \in DOMAIN tasks : tasks[i].state \notin {"running", "hung"}

\* C6: the responses returned by _execute_agents are in descending priority,
\* responses of equal priority in the order of their assignments, and
\* agent_sequence names, position by position, the responses of the result.
C6_SortedStable ==
    /\ \A k, l \in DOMAIN agent_responses :
          k < l =>
             /\ tasks[agent_responses[k].id].priority >= tasks[agent_responses[l].id].priority
             /\ tasks[agent_responses[k].id].priority = tasks[agent_responses[l].id].priority
                   => agent_responses[k].id < agent_responses[l].id
    /\ (HasResult /\ ~IsErrorResult(TheResult)) =>
          /\ TheResult.agent_responses = agent_responses
          /\ Len(TheResult.agent_sequence) = Len(agent_responses)
          /\ \A k \in DOMAIN agent_responses :
                TheResult.agent_sequence[k] = TaskName(tasks[agent_responses[k].id].name)

C6_Witness ==
    /\ pc = "returned"
    /\ HasResult
    /\ Len(TheResult.agent_responses) = 3
    /\ TheResult.agent_responses[1].id = 2
    /\ TheResult.agent_responses[2].id = 3
    /\ TheResult.agent_responses[3].id = 1
    /\ tasks[2].priority = tasks[3].priority

\* The documents a response cites are its own: the owner of a handle.
OwnerOf(d) == CHOOSE i \in DOMAIN tasks : \E k \in DOMAIN AgentSources(tasks[i].agent) :
                                              AgentSources(tasks[i].agent)[k] = d

C8_NoSurvivor ==
    /\ AllResponded
    /\ \A i \in DOMAIN tasks : tasks[i].confidence <= 0

UnparsableTexts == { <<"g", "o", "o", "d">>, <<>> }

C10_BadQualityOutput ==
    \/ \E e \in GenerationErrors : QualityRaise(e)
    \/ \E text \in UnparsableTexts : QualityReturn(text)

\* C10: when the quality-scoring call returns unparsable text or raises, the
\* score is exactly 0.5 and the orchestration is not failed: the result
\* keeps the synthesized answer and the agent responses, and the attempt is
\* counted as successful.
C10_NeutralScoreOnBadOutput ==
    [][ C10_BadQualityOutput =>
          /\ pc' = "returned"
          /\ result' # <<>>
          /\ result'[1].confidence = 50
          /\ ~IsErrorResult(result'[1])
          /\ result'[1].final_response = final_response
          /\ result'[1].agent_responses = agent_responses
          /\ agent_responses # <<>>
          /\ successful_orchestrations' = successful_orchestrations + 1 ]_vars

C10_Witness ==
    /\ pc = "returned"
    /\ quality_calls = 1
    /\ synthesis_calls = 1
    /\ HasResult
    /\ TheResult.confidence = 50
    /\ TheResult.final_response \in {<<t>> : t \in SynthesisTexts}
    /\ Len(TheResult.agent_responses) >= 2
    /\ successful_orchestrations = 1

\* ------------------------------------------------------------------ C11
CallsIn(states) == {c \in 1 .. NumCalls : calls[c].state \in states}

Succeeded == {c \in CallsIn({"returned"}) : calls[c].success}

\* C11: no counter update is lost, however the calls interleave:
\* total_orchestrations is the number of calls started and
\* successful_orchestrations the number of calls that returned a success;
\* once the N calls made have all completed (returned or been cancelled), S
\* of them with a success, total_orchestrations = N, successful_orchestrations = S and
\* get_orchestrator_metrics reports success_rate = S/N.
C11_NoLostCounterUpdate ==
    LET N == Cardinality(CallsIn({"returned", "cancelled"}))
        S == Cardinality(Succeeded)
    IN  /\ total_orchestrations = Cardinality(CallsIn({"running", "returned", "cancelled"}))
        /\ successful_orchestrations = S
        /\ (Running = {} /\ N > 0) =>
              /\ GetOrchestratorMetrics.total_orchestrations = N
              /\ GetOrchestratorMetrics.successful_orchestrations = S
              /\ RatEq(GetOrchestratorMetrics.success_rate, S, N)

\* Three calls that overlapped have all returned, two of them with a success.
C11_Witness ==
    /\ CallsIn({"returned"}) = 1 .. NumCalls
    /\ \E c \in 1 .. NumCalls : calls[c].overlapped
    /\ Cardinality(Succeeded) = 2
    /\ RatEq(GetOrchestratorMetrics.success_rate, 2, 3)

\* ------------------------------------------------------------------ C12
RECURSIVE SumRecorded(_)
SumRecorded(n) ==
    IF n = 0 THEN 0
    ELSE SumRecorded(n - 1)
         + (IF calls[n].state = "returned" THEN calls[n].processing_time ELSE 0)

\* C12: once every call made has returned (none is running, none was
\* cancelled), average_processing_time is the arithmetic mean of the
\* processing times the calls recorded.
C12_AverageIsMean ==
    (Running = {} /\ CallsIn({"cancelled"}) = {} /\ CallsIn({"returned"}) # {}) =>
        RatEq(average_processing_time,
              SumRecorded(NumCalls), Cardinality(CallsIn({"returned"})))
\* ------------------------------------------------------------------ C13
Logged(event) == event \in g_log

GraphReturned == g_pc = "returned"

TheResponse == g_result[1]

TheFused == g_fused_context[1]

\* the identities of the nodes in the rows the graph adapter returned
ReturnedNodeIds ==
    LET ns == SelectSeq(Concat(g_graph_records), IsNode)
    IN  [i \in 1 .. Len(ns) |-> ns[i].identity]

ContentsOf(ds) == [i \in 1 .. Len(ds) |-> DocTable(ds[i]).page_content]

\* C13: process_query never raises, whichever of intent classification,
\* entity extraction, graph traversal, vector search and response generation
\* fail, and returns a response; a failed retrieval source contributes an
\* empty set while what the other source returned is in the fused context
\* and in the response.
C13_ReturnsWhateverFails ==
    /\ g_pc # "raised"
    /\ GraphReturned =>
          /\ g_result # <<>>
          /\ Logged("Graph traversal failed") =>
                /\ TheFused.graph_nodes = <<>>
                /\ TheFused.vector_documents = ContentsOf(g_vector_results)
                /\ TheResponse.vector_sources = g_vector_results
          /\ Logged("Vector search failed") =>
                /\ TheFused.vector_documents = <<>>
                /\ TheResponse.vector_sources = <<>>
                /\ [i \in 1 .. Len(TheFused.graph_nodes) |-> TheFused.graph_nodes[i].id]
                      = ReturnedNodeIds

\* Classification, entity extraction, traversal and generation failed, the
\* vector search returned passages, and the call returned.
C13_Witness ==
    /\ GraphReturned
    /\ {"Intent classification failed", "Entity extraction failed",
         "Graph traversal failed", "Response generation failed"} \subseteq g_log
    /\ g_vector_results # <<>>
    /\ TheResponse.vector_sources = g_vector_results

\* ------------------------------------------------------------------ C14
\* C14: when the intent generation call fails, the intent is 'general', the
\* graph is queried with the generic plan, the vector search is made, and
\* the response returned has confidence >= 0.1.
C14_GeneralOnClassificationFailure ==
    Logged("Intent classification failed") =>
        /\ g_intent = <<"general">>
        /\ g_cypher_query # <<>> => g_cypher_query[1] = GenericQuery
        /\ GraphReturned =>
              /\ g_cypher_query # <<>>
              /\ Logged("Graph traversal completed") \/ Logged("Graph traversal failed")
              /\ Logged("Vector search completed") \/ Logged("Vector search failed")
              /\ TheResponse.metadata.intent = <<"general">>
              /\ TheResponse.confidence >= 10

\* The classification failed, both retrievals returned something, the call
\* returned.
C14_Witness ==
    /\ Logged("Intent classification failed")
    /\ GraphReturned
    /\ g_cypher_query = <<GenericQuery>>
    /\ g_graph_records # <<>>
    /\ g_vector_results # <<>>

\* ------------------------------------------------------------------ C15
\* C15: with g graph items and v vector documents in the fused context, the
\* confidence returned is within [0.1, 0.9], is 0.1 when g + v <= 1, is
\* 0.9 when g + v >= 9, and is (g + v) / 10 in between.
C15_CoverageConfidence ==
    GraphReturned =>
        LET n == Len(TheFused.graph_nodes) + Len(TheFused.vector_documents)
            c == TheResponse.confidence
        IN  /\ 10 <= c /\ c <= 90
            /\ n <= 1 => c = 10
            /\ n >= 9 => c = 90
            /\ (1 <= n /\ n <= 9) => c * 10 = n * 100

\* A response over eleven items (eight nodes, three documents), capped at 0.9.
C15_Witness ==
    /\ GraphReturned
    /\ Len(TheFused.graph_nodes) + Len(TheFused.vector_documents) = 11
    /\ TheResponse.confidence = 90

\* ------------------------------------------------------------------ C16
\* C16: the graph item count behind the confidence is the number of records
\* the graph adapter returned: with 2 records and 3 passages the confidence
\* is 0.5, whatever the records contain.
C16_RecordsAreTheGraphItems ==
    (GraphReturned /\ Len(g_graph_records) = 2 /\ Len(g_vector_results) = 3) =>
        TheResponse.confidence = 50

\* ------------------------------------------------------------------ C17
\* (content, source metadata) of a passage: equal pairs have equal
\* content-prefix fingerprints and equal source identifiers
PassageKey(d) == <<DocTable(d).page_content, DocTable(d).source>>

\* C17: the fused context holds exactly one document for each distinct
\* passage (same content, same source) of the vector results.
C17_FusionDeduplicates ==
    g_fused_context # <<>> =>
        Len(TheFused.vector_documents)
            = Cardinality({PassageKey(g_vector_results[i]) : i \in 1 .. Len(g_vector_results)})

\* ------------------------------------------------------------------ C18
BothReturnedNothing ==
    /\ Logged("Graph traversal completed") /\ g_graph_records = <<>>
    /\ Logged("Vector search completed") /\ g_vector_results = <<>>

\* C18: when graph traversal and vector search both return nothing, the
\* fused context is empty, the response generation model is not called and
\* the answer is the fixed message.
C18_NoGenerationOnEmptyContext ==
    (BothReturnedNothing /\ g_fused_context # <<>>) =>
        /\ TheFused.graph_nodes = <<>>
        /\ TheFused.vector_documents = <<>>
        /\ TheFused.combined_context = <<>>
        /\ g_generation_calls = 0
        /\ GraphReturned => TheResponse.answer = ApologyMessage

\* ------------------------------------------------------------------ C19
\* C19: vector retrieval does not wait for graph retrieval: once graph
\* traversal is awaited, the vector search starts (unless the caller
\* cancels), whether or not the graph adapter ever answers.
C19_VectorSearchDoesNotWaitForGraph ==
    (g_pc = "graph") ~> (g_pc \in {"embed", "vector", "generate", "returned", "cancelled"})
\* ------------------------------------------------------------------ C20
\* the sources of the surviving responses, walked in priority order
WalkedSources ==
    Concat([i \in 1 .. Len(TheResult.agent_responses) |-> TheResult.agent_responses[i].sources])

\* the first place in the walk where a source with the key of d stands
FirstPlace(d) ==
    CHOOSE i \in 1 .. Len(WalkedSources) :
        /\ SourceId(WalkedSources[i]) = SourceId(d)
        /\ \A j \in 1 .. i - 1 : SourceId(WalkedSources[j]) # SourceId(d)

\* C20: in the sources of a result no two entries have the same key (first
\* 100 characters of the content, 'source' metadata); every key of the
\* walk is kept, by the first entry that has it; the kept entries stand in
\* the order of the walk; deduplicating the sources again changes nothing.
C20_SourcesDeduplicated ==
    HasResult =>
        LET kept == TheResult.sources
        IN  /\ \A i, j \in 1 .. Len(kept) : i # j => SourceId(kept[i]) # SourceId(kept[j])
            /\ \A i \in 1 .. Len(WalkedSources) :
                  \E k \in 1 .. Len(kept) : SourceId(kept[k]) = SourceId(WalkedSources[i])
            /\ \A k \in 1 .. Len(kept) :
                  /\ \E i \in 1 .. Len(WalkedSources) : SourceId(WalkedSources[i]) = SourceId(kept[k])
                  /\ kept[k] = WalkedSources[FirstPlace(kept[k])]
            /\ \A k, l \in 1 .. Len(kept) : k < l => FirstPlace(kept[k]) < FirstPlace(kept[l])
            /\ Dedup(kept, {}) = kept

\* Two responses survive, citing five sources under three keys.
C20_Witness ==
    /\ HasResult
    /\ Len(TheResult.agent_responses) = 2
    /\ Len(WalkedSources) = 5
    /\ Len(TheResult.sources) = 3
\* ------------------------------------------------------------------ C21
\* the nodes in the rows the graph adapter returned, row by row
ReturnedNodes == SelectSeq(Concat(g_graph_records), IsNode)

Rendered == TheFused.combined_context

\* the places of the rendered text where an item line ("- ...") begins
ItemStarts ==
    {i \in 1 .. Len(Rendered) : Rendered[i] = "- " /\ (i = 1 \/ Rendered[i - 1] = "\n")}

\* the k-th item line of the rendered text
ItemLine(k) ==
    LET p == CHOOSE q \in ItemStarts : Cardinality({r \in ItemStarts : r < q}) = k - 1
        ends == {j \in p .. Len(Rendered) : Rendered[j] = "\n"} \cup {Len(Rendered) + 1}
        e == CHOOSE j \in ends : \A l \in ends : j <= l
    IN  SubSeq(Rendered, p, e - 1)

\* C21: in the rendered context block and in the sources list, the graph
\* items come first, in the order the graph adapter returned them, followed
\* by the vector items, in the order the vector adapter returned them.
C21_GraphBeforeVectorInAdapterOrder ==
    GraphReturned =>
        LET ns == ReturnedNodes
            ds == g_vector_results
            sources == TheResponse.sources
        IN  /\ Cardinality(ItemStarts) = Len(ns) + Len(ds)
            /\ \A k \in 1 .. Len(ns) :
                  /\ ItemLine(k)[2] = ns[k].labels[1]
                  /\ ItemLine(k)[4] = DictGet(ns[k].properties, "name", "N/A")
            /\ \A k \in 1 .. Len(ds) :
                  LET line == ItemLine(Len(ns) + k)
                  IN  SubSeq(line, 2, Len(line) - 1)
                        = Take(DocTable(ds[k]).page_content, 200)
            /\ Len(sources) = Len(ns) + Len(ds)
            /\ \A k \in 1 .. Len(ns) :
                  sources[k].type = "graph" /\ sources[k].id = ns[k].identity
            /\ \A k \in 1 .. Len(ds) :
                  /\ sources[Len(ns) + k].type = "vector"
                  /\ sources[Len(ns) + k].content = Take(DocTable(ds[k]).page_content, 200)

\* Five nodes from two rows and two different passages were returned.
C21_Witness ==
    /\ GraphReturned
    /\ Len(g_graph_records) = 2
    /\ Len(ReturnedNodes) = 5
    /\ g_vector_results = <<3, 1>>
    /\ Len(TheResponse.sources) = 7

\* ------------------------------------------------------------------ C26
IntentEnumeration ==
    { <<"flight_info">>, <<"safety">>, <<"maintenance">>, <<"customer_service">>,
      <<"technical">>, <<"general">> }

\* C26: the intent process_query derives, and reports in
\* metadata['intent'], is a member of the closed intent enumeration.
C26_IntentInEnumeration ==
    /\ g_intent # <<>> => g_intent \in IntentEnumeration
    /\ GraphReturned => TheResponse.metadata.intent \in IntentEnumeration

\* ------------------------------------------------------------------ C28
CoverageOf(n) == IF n <= 1 THEN 10 ELSE IF n >= 9 THEN 90 ELSE 10 * n

\* C28: the confidence returned is fixed by the numbers of graph nodes and
\* vector documents in the fused context before the generation call ends:
\* the step that ends the call gives the same confidence whether the
\* generation call returned or raised.
C28_ConfidenceIgnoresGeneration ==
    [][(g_pc = "generate" /\ g_pc' = "returned") =>
          g_result'[1].confidence
            = CoverageOf(Len(TheFused.graph_nodes) + Len(TheFused.vector_documents))]_vars

\* The generation call failed on a context of five items: the answer is the
\* apology and the confidence is 0.5.
C28_Witness ==
    /\ GraphReturned
    /\ Logged("Response generation failed")
    /\ TheResponse.answer = ApologyMessage
    /\ Len(TheFused.graph_nodes) + Len(TheFused.vector_documents) = 5
    /\ TheResponse.confidence = 50
\* ------------------------------------------------------------------ C22
\* some response of the call has been filtered, annotated, synthesized,
\* assessed or returned
ResponsesConsumed ==
    \/ pc \in {"synthesis", "quality"}
    \/ agent_responses # <<>>
    \/ synthesis_calls > 0
    \/ quality_calls > 0
    \/ HasResult /\ ~IsErrorResult(TheResult)

\* C22: within a call, synthesis has not started and no agent response has
\* been consumed unless every assigned agent task has completed.
C22_FanInBarrier ==
    ResponsesConsumed => \A i \in DOMAIN tasks : tasks[i].state = "done"

\* Synthesis is awaited for the responses of three completed tasks.
C22_Witness ==
    /\ pc = "synthesis"
    /\ Len(tasks) = 3
    /\ Len(agent_responses) >= 2
    /\ \A i \in DOMAIN tasks : tasks[i].state = "done"

\* ------------------------------------------------------------------ C23
\* C23: a call that issued the synthesis generation call returns a result
\* that is not the error result of the top-level catch and that carries the
\* surviving agent responses, whether the generation call returned or
\* raised.
C23_SynthesisFailureStaysLocal ==
    (HasResult /\ synthesis_calls > 0) =>
        /\ ~IsErrorResult(TheResult)
        /\ TheResult.agent_responses = agent_responses
        /\ TheResult.sources = ExtractSources(agent_responses)

\* ------------------------------------------------------------------ C24
\* C24: each entry of agent_sequence is the identifier of the agent that
\* produced the response at the same position.
C24_AgentSequenceNamesAgents ==
    (HasResult /\ ~IsErrorResult(TheResult)) =>
        /\ Len(TheResult.agent_sequence) = Len(TheResult.agent_responses)
        /\ \A k \in DOMAIN TheResult.agent_sequence :
              TheResult.agent_sequence[k] = <<tasks[TheResult.agent_responses[k].id].agent>>

\* ------------------------------------------------------------------ C25
\* C25: every response the coordinator holds is, field by field, the
\* response its agent produced.
C25_ResponsesLeftAsProduced ==
    \A k \in DOMAIN agent_responses :
        agent_responses[k] = AgentResponse(agent_responses[k].id, tasks[agent_responses[k].id])

\* ------------------------------------------------------------------ C27
\* C27: when the assigned agents have all returned and no response has
\* confidence > 0, the call returns the fixed degraded-mode message with
\* confidence 0.0, no sources and no 'error' entry in metadata, and the
\* metrics count it as a successful orchestration.
C27_NoSurvivorCountsAsSuccess ==
    (tasks # <<>> /\ C8_NoSurvivor /\ pc = "returned") =>
        /\ TheResult.final_response = <<DegradedMessage>>
        /\ TheResult.confidence = 0
        /\ TheResult.sources = <<>>
        /\ ~IsErrorResult(TheResult)
        /\ total_orchestrations = 1
        /\ successful_orchestrations = 1

\* Three agents returned responses of confidence 0 and the call returned.
C27_Witness ==
    /\ C8_NoSurvivor
    /\ pc = "returned"
    /\ Len(tasks) = 3
    /\ TheResult.agent_responses = <<>>
    /\ successful_orchestrations = 1
====
